---- MODULE Spec2Model ----
(***************************************************************************)
(* TokenVote: the on-chain core (CustomToken, TokenFactory, Governance).   *)
(*                                                                         *)
(* Every external call is one atomic transaction: it either commits or     *)
(* reverts, and a revert restores all contract storage and drops the       *)
(* events of the call.  The operators named ...Error give the result of a  *)
(* call (OK or the revert reason) as the code's checks decide it, in their *)
(* order; the variable `emitted` holds the events that the latest          *)
(* committed transaction emitted (the events the sources declare; the      *)
(* Transfer events of the ERC20 base contract are not recorded).           *)
(*                                                                         *)
(* Two contracts named CustomToken exist in the repository:                *)
(*   "mintable"    src/unnamed/part_000 (the one TokenFactory deploys)     *)
(*   "distributor" src/contracts/src/CustomToken.sol                       *)
(* The field kind[t] of a token address says which one is deployed there.  *)
(*                                                                         *)
(* uint256 is modelled as 0..UintMax with UintMax = 2^UintBits - 1;        *)
(* Solidity ^0.8 checked arithmetic reverts with Panic(0x11) on overflow.  *)
(* The OpenZeppelin v5 base contracts (ERC20, Ownable) are modelled by     *)
(* their documented behaviour at the places the sources call them; their   *)
(* allowance and ownership-transfer entry points are not modelled.         *)
(***************************************************************************)
EXTENDS Integers, Sequences, FiniteSets, TLC

\* ---------------------------------------------------------------- bounds
UintBits == 8
MaxTime == 3
MaxSmallSupply == 3
MaxDistribute == 2
MaxRequests == 2
MaxMirrorProposals == 1

UintMax == 2^UintBits - 1
Half == 2^(UintBits - 1)

\* the universe: the null address, two externally owned accounts, the
\* addresses at which a token contract can be deployed, and the proposal ids
\* looked at
ZERO == 0
Users == {1, 2}
TokenAddrs == {101, 102, 103}
Holders == {ZERO} \cup Users
ProposalIds == {0, 1, 2}
CreatableIds == {1}

\* inputs the transactions are called with; the token arguments are the null
\* address, the first token address and an address that holds no code until
\* a third token is deployed
Supplies == {2, Half}
DecimalsIn == {0, 1}
Amounts == {1, Half}
Durations == {0, 1}
Percents == {0, 1, 100, 101}
TokenArgs == {ZERO, 101, 103}

\* the server: the requests in flight, and the spellings of two accounts (the
\* first account in lower and in mixed case)
Requests == 1..MaxRequests
VoterAddresses == {"0xab", "0xAB", "0xcd"}
MissingProposalId == MaxMirrorProposals + 1

\* ------------------------------------------------------- revert reasons
OK == "ok"
Panic == "Panic(0x11)"
NoCode == "call to an address without code"
OwnableInvalidOwner == "OwnableInvalidOwner"
OwnableUnauthorizedAccount == "OwnableUnauthorizedAccount"
ERC20InvalidSender == "ERC20InvalidSender"
ERC20InvalidReceiver == "ERC20InvalidReceiver"
ERC20InsufficientBalance == "ERC20InsufficientBalance"
TransfersDisabled == "Token transfers are disabled"
NotAuthorized == "Not authorized to distribute"
LengthMismatch == "Arrays must have same length"
InvalidToken == "Invalid token address"
InvalidQuorum == "Quorum must be between 1 and 100"
InvalidDuration == "Duration must be positive"
NotATokenHolder == "Creator must hold some tokens"
ProposalNotFound == "Proposal does not exist"
VotingClosed == "Voting period ended"
VotingNotEnded == "Voting period not ended"
AlreadyExecuted == "Proposal already executed"
AlreadyVoted == "Already voted"
NoVotingPower == "Must have voting power"
QuorumNotReached == "Quorum not reached"

VARIABLES
    now,            \* block.timestamp
    kind,           \* token address -> "none" | "mintable" | "distributor"
    owner,          \* Ownable._owner
    decimals,       \* _decimals
    transferable,   \* transferable
    distributors,   \* distributors (only the "distributor" contract has it)
    balances,       \* ERC20._balances
    totalSupply,    \* ERC20._totalSupply
    minted,         \* history: cumulative amount minted per token
    tokens,         \* TokenFactory.tokens
    creatorTokens,  \* TokenFactory.creatorTokens
    proposalCount,  \* Governance.proposalCount
    proposals,      \* Governance.proposals
    votes,          \* Governance.votes
    emitted,        \* the events of the latest committed transaction
    proposalsTable, \* the server's table proposals (row id = position)
    votesTable,     \* the server's table votes (row id = position)
    handlers        \* the POST /api/votes handlers in flight, by request

tokenVars == <<kind, owner, decimals, transferable, distributors, balances, totalSupply, minted>>
factoryVars == <<tokens, creatorTokens>>
govVars == <<proposalCount, proposals, votes>>
chainVars == <<now, tokenVars, factoryVars, govVars, emitted>>
mirrorVars == <<proposalsTable, votesTable, handlers>>
vars == <<chainVars, mirrorVars>>

\* ------------------------------------------------------------- records
NoEvent == <<>>

Ev(name, id, token, who, to, flag, amount, t1, t2) ==
    [name |-> name, id |-> id, token |-> token, who |-> who, to |-> to,
     flag |-> flag, amount |-> amount, t1 |-> t1, t2 |-> t2]

TransferabilityChangedEv(t, flag) ==
    Ev("TransferabilityChanged", 0, t, ZERO, ZERO, flag, 0, 0, 0)
DistributorUpdatedEv(t, distributor, status) ==
    Ev("DistributorUpdated", 0, t, distributor, ZERO, status, 0, 0, 0)
TokenCreatedEv(t, supply, dec, flag, creator) ==
    Ev("TokenCreated", 0, t, creator, ZERO, flag, supply, dec, 0)
ProposalCreatedEv(id, t, creator, start, end, quorum) ==
    Ev("ProposalCreated", id, t, creator, ZERO, FALSE, quorum, start, end)
VoteCastEv(id, voter, support, weight) ==
    Ev("VoteCast", id, ZERO, voter, ZERO, support, weight, 0, 0)
ProposalExecutedEv(id, passed) ==
    Ev("ProposalExecuted", id, ZERO, ZERO, ZERO, passed, 0, 0, 0)

DefaultProposal ==
    [id |-> 0, tokenAddress |-> ZERO, creator |-> ZERO, startTime |-> 0, endTime |-> 0,
     quorum |-> 0, votesFor |-> 0, votesAgainst |-> 0, executed |-> FALSE]
DefaultVote == [voted |-> FALSE, support |-> FALSE, weight |-> 0]

\* a request body accepted by insertVoteSchema
VoteData(proposalId, voterAddress, voteAmount, voteDirection) ==
    [proposalId |-> proposalId, voterAddress |-> voterAddress,
     voteAmount |-> voteAmount, voteDirection |-> voteDirection]
NoVoteData == VoteData(0, "", 0, "")
\* a row of the table proposals as the handlers read it; id 0 is "no row"
ProposalRow(id, votesFor, votesAgainst) ==
    [id |-> id, votesFor |-> votesFor, votesAgainst |-> votesAgainst]
NoProposalRow == ProposalRow(0, 0, 0)
\* a handler of POST /api/votes: the await it is suspended at, its parsed
\* body, the proposal read by the route, the proposal read by createVote,
\* and the status it responded with (0 while it has not responded)
IdleHandler ==
    [pc |-> "idle", voteData |-> NoVoteData, proposal |-> NoProposalRow,
     inner |-> NoProposalRow, status |-> 0]

RECURSIVE SumOver(_, _)
SumOver(f, S) ==
    IF S = {} THEN 0
    ELSE LET x == CHOOSE y \in S : TRUE IN f[x] + SumOver(f, S \ {x})

\* ------------------------------------------------------------------ Init
Init ==
    /\ now = 1
    /\ kind = [t \in TokenAddrs |-> "none"]
    /\ owner = [t \in TokenAddrs |-> ZERO]
    /\ decimals = [t \in TokenAddrs |-> 0]
    /\ transferable = [t \in TokenAddrs |-> FALSE]
    /\ distributors = [t \in TokenAddrs |-> [a \in Holders |-> FALSE]]
    /\ balances = [t \in TokenAddrs |-> [a \in Holders |-> 0]]
    /\ totalSupply = [t \in TokenAddrs |-> 0]
    /\ minted = [t \in TokenAddrs |-> 0]
    /\ tokens = <<>>
    /\ creatorTokens = [a \in Users |-> <<>>]
    /\ proposalCount = 0
    /\ proposals = [i \in ProposalIds |-> DefaultProposal]
    /\ votes = [i \in ProposalIds |-> [a \in Users |-> DefaultVote]]
    /\ emitted = NoEvent
    /\ proposalsTable = <<>>
    /\ votesTable = <<>>
    /\ handlers = [r \in Requests |-> IdleHandler]

\* ------------------------------------------------------------ the clock
Tick ==
    /\ now < MaxTime
    /\ now' = now + 1
    /\ UNCHANGED <<tokenVars, factoryVars, govVars, emitted, mirrorVars>>

\* ------------------------------------------------------------ the ledger
\* The ERC20 storage of one token while a transaction runs on it; err is OK
\* until some step reverts.
Ledger(t) ==
    [bal |-> balances[t], supply |-> totalSupply[t], minted |-> minted[t], err |-> OK]

balanceOf(t, a) == balances[t][a]

deployedTokens == {t \in TokenAddrs : kind[t] # "none"}

\* mutant of ERC20_update: the sender is not debited
ERC20_update_NoDebit(t, L, from, to, value) ==
    IF from = ZERO /\ L.supply + value > UintMax THEN [L EXCEPT !.err = Panic]
    ELSE IF from # ZERO /\ L.bal[from] < value THEN [L EXCEPT !.err = ERC20InsufficientBalance]
    ELSE
        LET credited == IF to = ZERO THEN L.bal ELSE [L.bal EXCEPT ![to] = @ + value]
            supply1 == IF from = ZERO THEN L.supply + value ELSE L.supply
            supply2 == IF to = ZERO THEN supply1 - value ELSE supply1
        IN  [L EXCEPT !.bal = credited,
                      !.supply = supply2,
                      !.minted = IF from = ZERO THEN @ + value ELSE @]

\* ERC20._update of OpenZeppelin v5, reached through super._update
ERC20_update(t, L, from, to, value) ==
    IF from = ZERO /\ L.supply + value > UintMax THEN [L EXCEPT !.err = Panic]
    ELSE IF from # ZERO /\ L.bal[from] < value THEN [L EXCEPT !.err = ERC20InsufficientBalance]
    ELSE
        LET debited == IF from = ZERO THEN L.bal ELSE [L.bal EXCEPT ![from] = @ - value]
            credited == IF to = ZERO THEN debited ELSE [debited EXCEPT ![to] = @ + value]
            supply1 == IF from = ZERO THEN L.supply + value ELSE L.supply
            supply2 == IF to = ZERO THEN supply1 - value ELSE supply1
        IN  [L EXCEPT !.bal = credited,
                      !.supply = supply2,
                      !.minted = IF from = ZERO THEN @ + value ELSE @]

\* mutant of updateGateDistributor: the receiver is looked up, not the sender
updateGateDistributor_Receiver(flag, dist, from, to) ==
    IF ~flag /\ from # ZERO /\ to # ZERO /\ ~dist[to] THEN TransfersDisabled ELSE OK

\* the transfer gate of src/contracts/src/CustomToken.sol
updateGateDistributor(flag, dist, from, to) ==
    IF ~flag /\ from # ZERO /\ to # ZERO /\ ~dist[from] THEN TransfersDisabled ELSE OK

\* the transfer gate of src/unnamed/part_000
updateGateMintable(flag, from, to) ==
    IF from # ZERO /\ ~flag THEN TransfersDisabled ELSE OK

\* CustomToken._update of the contract of kind k, with the flag and the
\* distributor mapping in force
_update(k, flag, dist, t, L, from, to, value) ==
    LET gate == IF k = "distributor" THEN updateGateDistributor(flag, dist, from, to)
                ELSE updateGateMintable(flag, from, to)
    IN  IF L.err # OK THEN L
        ELSE IF gate # OK THEN [L EXCEPT !.err = gate]
        ELSE ERC20_update(t, L, from, to, value)

\* mutant of _transfer: a transfer to the null address is let through
_transfer_ToNull(k, flag, dist, t, L, from, to, value) ==
    IF L.err # OK THEN L
    ELSE IF from = ZERO THEN [L EXCEPT !.err = ERC20InvalidSender]
    ELSE _update(k, flag, dist, t, L, from, to, value)

\* ERC20._transfer
_transfer(k, flag, dist, t, L, from, to, value) ==
    IF L.err # OK THEN L
    ELSE IF from = ZERO THEN [L EXCEPT !.err = ERC20InvalidSender]
    ELSE IF to = ZERO THEN [L EXCEPT !.err = ERC20InvalidReceiver]
    ELSE _update(k, flag, dist, t, L, from, to, value)

\* ERC20._mint
_mint(k, flag, dist, t, L, account, value) ==
    IF account = ZERO THEN [L EXCEPT !.err = ERC20InvalidReceiver]
    ELSE _update(k, flag, dist, t, L, ZERO, account, value)

\* the loop of distributeTokens from index i on
RECURSIVE distributeLoop(_, _, _, _, _, _)
distributeLoop(t, L, sender, recipients, amounts, i) ==
    IF i > Len(recipients) \/ L.err # OK THEN L
    ELSE distributeLoop(t,
            _transfer(kind[t], transferable[t], distributors[t], t, L,
                      sender, recipients[i], amounts[i]),
            sender, recipients, amounts, i + 1)

\* storage of token t after a transaction that ran to completion on ledger L
Commit(t, L) ==
    /\ balances' = [balances EXCEPT ![t] = L.bal]
    /\ totalSupply' = [totalSupply EXCEPT ![t] = L.supply]
    /\ minted' = [minted EXCEPT ![t] = L.minted]

\* a reverted call: no storage is written and no event is logged
Revert(op, reason) == UNCHANGED vars

\* ------------------------------------------------------------ deployment
nextTokenAddress == CHOOSE t \in TokenAddrs : kind[t] = "none"

EmptyLedger == [bal |-> [a \in Holders |-> 0], supply |-> 0, minted |-> 0, err |-> OK]
NoDistributors == [a \in Holders |-> FALSE]

\* constructor of src/contracts/src/CustomToken.sol at address t
constructorDistributor(t, totalSupply_, decimals_, initialOwner, isTransferable) ==
    IF initialOwner = ZERO THEN [EmptyLedger EXCEPT !.err = OwnableInvalidOwner]
    ELSE IF 10^decimals_ > UintMax \/ totalSupply_ * 10^decimals_ > UintMax
         THEN [EmptyLedger EXCEPT !.err = Panic]
    ELSE _mint("distributor", isTransferable, NoDistributors, t, EmptyLedger,
               initialOwner, totalSupply_ * 10^decimals_)

\* constructor of src/unnamed/part_000 at address t
constructorMintable(t, initialSupply, tokenDecimals, isTransferable, creator) ==
    IF creator = ZERO THEN [EmptyLedger EXCEPT !.err = OwnableInvalidOwner]
    ELSE _mint("mintable", isTransferable, NoDistributors, t, EmptyLedger,
               creator, initialSupply)

\* a direct deployment of src/contracts/src/CustomToken.sol
deployCustomToken(totalSupply_, decimals_, initialOwner, isTransferable) ==
    /\ deployedTokens # TokenAddrs
    /\ LET t == nextTokenAddress
           L == constructorDistributor(t, totalSupply_, decimals_, initialOwner, isTransferable)
       IN  IF L.err # OK THEN Revert("deployCustomToken", L.err)
           ELSE /\ kind' = [kind EXCEPT ![t] = "distributor"]
                /\ owner' = [owner EXCEPT ![t] = initialOwner]
                /\ decimals' = [decimals EXCEPT ![t] = decimals_]
                /\ transferable' = [transferable EXCEPT ![t] = isTransferable]
                /\ distributors' = [distributors EXCEPT ![t][initialOwner] = TRUE]
                /\ Commit(t, L)
                /\ emitted' = <<DistributorUpdatedEv(t, initialOwner, TRUE)>>
                /\ UNCHANGED <<now, mirrorVars, factoryVars, govVars>>

\* mutant of createToken: the creator's list is not written
createToken_GlobalListOnly(c, initialSupply, decimals_, transferable_) ==
    /\ deployedTokens # TokenAddrs
    /\ LET t == nextTokenAddress
           L == constructorMintable(t, initialSupply, decimals_, transferable_, c)
       IN  IF L.err # OK THEN Revert("createToken", L.err)
           ELSE /\ kind' = [kind EXCEPT ![t] = "mintable"]
                /\ owner' = [owner EXCEPT ![t] = c]
                /\ decimals' = [decimals EXCEPT ![t] = decimals_]
                /\ transferable' = [transferable EXCEPT ![t] = transferable_]
                /\ UNCHANGED distributors
                /\ Commit(t, L)
                /\ tokens' = Append(tokens, t)
                /\ UNCHANGED creatorTokens
                /\ emitted' = <<TokenCreatedEv(t, initialSupply, decimals_, transferable_, c)>>
                /\ UNCHANGED <<now, mirrorVars, govVars>>

\* TokenFactory.createToken
createToken(c, initialSupply, decimals_, transferable_) ==
    /\ deployedTokens # TokenAddrs
    /\ LET t == nextTokenAddress
           L == constructorMintable(t, initialSupply, decimals_, transferable_, c)
       IN  IF L.err # OK THEN Revert("createToken", L.err)
           ELSE /\ kind' = [kind EXCEPT ![t] = "mintable"]
                /\ owner' = [owner EXCEPT ![t] = c]
                /\ decimals' = [decimals EXCEPT ![t] = decimals_]
                /\ transferable' = [transferable EXCEPT ![t] = transferable_]
                /\ UNCHANGED distributors
                /\ Commit(t, L)
                /\ tokens' = Append(tokens, t)
                /\ creatorTokens' = [creatorTokens EXCEPT ![c] = Append(@, t)]
                /\ emitted' = <<TokenCreatedEv(t, initialSupply, decimals_, transferable_, c)>>
                /\ UNCHANGED <<now, mirrorVars, govVars>>

\* ------------------------------------------------------------ token calls
\* ERC20.transfer, called by c on token t
transfer(t, c, to, amount) ==
    /\ kind[t] # "none"
    /\ LET L == _transfer(kind[t], transferable[t], distributors[t], t, Ledger(t), c, to, amount)
       IN  IF L.err # OK THEN Revert("transfer", L.err)
           ELSE /\ Commit(t, L)
                /\ emitted' = NoEvent
                /\ UNCHANGED <<now, mirrorVars, kind, owner, decimals, transferable, distributors,
                               factoryVars, govVars>>

\* CustomToken.mint (src/unnamed/part_000), called by c
mint(t, c, to, amount) ==
    /\ kind[t] = "mintable"
    /\ IF c # owner[t] THEN Revert("mint", OwnableUnauthorizedAccount)
       ELSE LET L == _mint(kind[t], transferable[t], distributors[t], t, Ledger(t), to, amount)
            IN  IF L.err # OK THEN Revert("mint", L.err)
                ELSE /\ Commit(t, L)
                     /\ emitted' = NoEvent
                     /\ UNCHANGED <<now, mirrorVars, kind, owner, decimals, transferable, distributors,
                                    factoryVars, govVars>>

\* CustomToken.setTransferable (both contracts), called by c
setTransferable(t, c, isTransferable) ==
    /\ kind[t] # "none"
    /\ IF c # owner[t] THEN Revert("setTransferable", OwnableUnauthorizedAccount)
       ELSE /\ transferable' = [transferable EXCEPT ![t] = isTransferable]
            /\ emitted' = IF kind[t] = "distributor"
                          THEN <<TransferabilityChangedEv(t, isTransferable)>> ELSE NoEvent
            /\ UNCHANGED <<now, mirrorVars, kind, owner, decimals, distributors, balances, totalSupply,
                           minted, factoryVars, govVars>>

\* mutant of setDistributor: the caller is not checked
setDistributor_AnyCaller(t, c, distributor, status) ==
    /\ kind[t] = "distributor"
    /\ distributors' = [distributors EXCEPT ![t][distributor] = status]
    /\ emitted' = <<DistributorUpdatedEv(t, distributor, status)>>
    /\ UNCHANGED <<now, mirrorVars, kind, owner, decimals, transferable, balances, totalSupply,
                   minted, factoryVars, govVars>>

\* CustomToken.setDistributor (src/contracts/src/CustomToken.sol), called by c
setDistributor(t, c, distributor, status) ==
    /\ kind[t] = "distributor"
    /\ IF c # owner[t] THEN Revert("setDistributor", OwnableUnauthorizedAccount)
       ELSE /\ distributors' = [distributors EXCEPT ![t][distributor] = status]
            /\ emitted' = <<DistributorUpdatedEv(t, distributor, status)>>
            /\ UNCHANGED <<now, mirrorVars, kind, owner, decimals, transferable, balances, totalSupply,
                           minted, factoryVars, govVars>>

\* mutant of distributeTokens: the transfers made before a failing pair stay
distributeTokens_KeepPartial(t, c, recipients, amounts) ==
    /\ kind[t] = "distributor"
    /\ IF ~distributors[t][c] THEN Revert("distributeTokens", NotAuthorized)
       ELSE IF Len(recipients) # Len(amounts) THEN Revert("distributeTokens", LengthMismatch)
       ELSE LET L == distributeLoop(t, Ledger(t), c, recipients, amounts, 1)
            IN  /\ Commit(t, L)
                /\ emitted' = NoEvent
                /\ UNCHANGED <<now, mirrorVars, kind, owner, decimals, transferable, distributors,
                               factoryVars, govVars>>

\* CustomToken.distributeTokens (src/contracts/src/CustomToken.sol), called by c
distributeTokens(t, c, recipients, amounts) ==
    /\ kind[t] = "distributor"
    /\ IF ~distributors[t][c] THEN Revert("distributeTokens", NotAuthorized)
       ELSE IF Len(recipients) # Len(amounts) THEN Revert("distributeTokens", LengthMismatch)
       ELSE LET L == distributeLoop(t, Ledger(t), c, recipients, amounts, 1)
            IN  IF L.err # OK THEN Revert("distributeTokens", L.err)
                ELSE /\ Commit(t, L)
                     /\ emitted' = NoEvent
                     /\ UNCHANGED <<now, mirrorVars, kind, owner, decimals, transferable, distributors,
                                    factoryVars, govVars>>

\* ------------------------------------------------------------ Governance
\* an external call to address a reaches contract code
hasCode(a) == a \in TokenAddrs /\ kind[a] # "none"

\* mutant of quorumValue: the division rounds up
quorumValue_RoundUp(supply, quorumPercent) == (supply * quorumPercent + 99) \div 100

\* quorumValue of createProposal
quorumValue(supply, quorumPercent) == (supply * quorumPercent) \div 100

\* mutant of createProposalError: the duration is checked before the quorum
createProposalError_DurationFirst(c, tokenAddress, duration, quorumPercent) ==
    IF tokenAddress = ZERO THEN InvalidToken
    ELSE IF ~(duration > 0) THEN InvalidDuration
    ELSE IF ~(quorumPercent > 0 /\ quorumPercent <= 100) THEN InvalidQuorum
    ELSE IF ~hasCode(tokenAddress) THEN NoCode
    ELSE IF ~(balanceOf(tokenAddress, c) > 0) THEN NotATokenHolder
    ELSE IF totalSupply[tokenAddress] * quorumPercent > UintMax THEN Panic
    ELSE IF proposalCount + 1 > UintMax \/ now + duration > UintMax THEN Panic
    ELSE OK

\* the outcome of the checks of createProposal for caller c, in their order
createProposalError(c, tokenAddress, duration, quorumPercent) ==
    IF tokenAddress = ZERO THEN InvalidToken
    ELSE IF ~(quorumPercent > 0 /\ quorumPercent <= 100) THEN InvalidQuorum
    ELSE IF ~(duration > 0) THEN InvalidDuration
    ELSE IF ~hasCode(tokenAddress) THEN NoCode
    ELSE IF ~(balanceOf(tokenAddress, c) > 0) THEN NotATokenHolder
    ELSE IF totalSupply[tokenAddress] * quorumPercent > UintMax THEN Panic
    ELSE IF proposalCount + 1 > UintMax \/ now + duration > UintMax THEN Panic
    ELSE OK

\* the record createProposal stores under the new id
newProposal(id, c, tokenAddress, duration, quorumPercent) ==
    [id |-> id, tokenAddress |-> tokenAddress, creator |-> c,
     startTime |-> now, endTime |-> now + duration,
     quorum |-> quorumValue(totalSupply[tokenAddress], quorumPercent),
     votesFor |-> 0, votesAgainst |-> 0, executed |-> FALSE]

\* mutant of createProposal: the counter is not advanced past the first id
createProposal_ReuseId(c, tokenAddress, duration, quorumPercent) ==
    LET err == createProposalError(c, tokenAddress, duration, quorumPercent)
        id == IF proposalCount = 0 THEN 1 ELSE proposalCount
        p == newProposal(id, c, tokenAddress, duration, quorumPercent)
    IN  IF err # OK THEN Revert("createProposal", err)
        ELSE /\ proposalCount' = id
             /\ proposals' = [proposals EXCEPT ![id] = p]
             /\ emitted' = <<ProposalCreatedEv(id, tokenAddress, c, p.startTime, p.endTime, p.quorum)>>
             /\ UNCHANGED <<now, mirrorVars, tokenVars, factoryVars, votes>>

\* Governance.createProposal, called by c
createProposal(c, tokenAddress, duration, quorumPercent) ==
    LET err == createProposalError(c, tokenAddress, duration, quorumPercent)
        id == proposalCount + 1
        p == newProposal(id, c, tokenAddress, duration, quorumPercent)
    IN  IF err # OK THEN Revert("createProposal", err)
        ELSE /\ proposalCount' = id
             /\ proposals' = [proposals EXCEPT ![id] = p]
             /\ emitted' = <<ProposalCreatedEv(id, tokenAddress, c, p.startTime, p.endTime, p.quorum)>>
             /\ UNCHANGED <<now, mirrorVars, tokenVars, factoryVars, votes>>

\* the weight castVote reads for caller c on proposal record p
voteWeight(p, c) == IF hasCode(p.tokenAddress) THEN balanceOf(p.tokenAddress, c) ELSE 0

\* mutant of castVoteError: the check of the caller's ballot is missing
castVoteError_NoVotedCheck(c, proposalId, support) ==
    LET proposal == proposals[proposalId] IN
    IF ~(proposal.id = proposalId) THEN ProposalNotFound
    ELSE IF ~(now <= proposal.endTime) THEN VotingClosed
    ELSE IF proposal.executed THEN AlreadyExecuted
    ELSE IF ~hasCode(proposal.tokenAddress) THEN NoCode
    ELSE IF ~(voteWeight(proposal, c) > 0) THEN NoVotingPower
    ELSE IF (IF support THEN proposal.votesFor ELSE proposal.votesAgainst)
            + voteWeight(proposal, c) > UintMax THEN Panic
    ELSE OK

\* mutant of castVoteError: the window closes at endTime, not after it
castVoteError_StrictWindow(c, proposalId, support) ==
    LET proposal == proposals[proposalId] IN
    IF ~(proposal.id = proposalId) THEN ProposalNotFound
    ELSE IF ~(now < proposal.endTime) THEN VotingClosed
    ELSE IF proposal.executed THEN AlreadyExecuted
    ELSE IF votes[proposalId][c].voted THEN AlreadyVoted
    ELSE IF ~hasCode(proposal.tokenAddress) THEN NoCode
    ELSE IF ~(voteWeight(proposal, c) > 0) THEN NoVotingPower
    ELSE IF (IF support THEN proposal.votesFor ELSE proposal.votesAgainst)
            + voteWeight(proposal, c) > UintMax THEN Panic
    ELSE OK

\* mutant of castVoteError: the window is not checked
castVoteError_NoWindow(c, proposalId, support) ==
    LET proposal == proposals[proposalId] IN
    IF ~(proposal.id = proposalId) THEN ProposalNotFound
    ELSE IF proposal.executed THEN AlreadyExecuted
    ELSE IF votes[proposalId][c].voted THEN AlreadyVoted
    ELSE IF ~hasCode(proposal.tokenAddress) THEN NoCode
    ELSE IF ~(voteWeight(proposal, c) > 0) THEN NoVotingPower
    ELSE IF (IF support THEN proposal.votesFor ELSE proposal.votesAgainst)
            + voteWeight(proposal, c) > UintMax THEN Panic
    ELSE OK

\* the outcome of the checks of castVote for caller c, in their order
castVoteError(c, proposalId, support) ==
    LET proposal == proposals[proposalId] IN
    IF ~(proposal.id = proposalId) THEN ProposalNotFound
    ELSE IF ~(now <= proposal.endTime) THEN VotingClosed
    ELSE IF proposal.executed THEN AlreadyExecuted
    ELSE IF votes[proposalId][c].voted THEN AlreadyVoted
    ELSE IF ~hasCode(proposal.tokenAddress) THEN NoCode
    ELSE IF ~(voteWeight(proposal, c) > 0) THEN NoVotingPower
    ELSE IF (IF support THEN proposal.votesFor ELSE proposal.votesAgainst)
            + voteWeight(proposal, c) > UintMax THEN Panic
    ELSE OK

\* mutant of newVote: the ballot is stored with weight 1
newVote_UnitWeight(support, weight) == [voted |-> TRUE, support |-> support, weight |-> 1]

\* the ballot castVote stores
newVote(support, weight) == [voted |-> TRUE, support |-> support, weight |-> weight]

\* mutant of tallied: the quorum is set again from the supply at the vote
tallied_Requorum(proposal, support, weight) ==
    IF support
    THEN [proposal EXCEPT !.votesFor = @ + weight,
                          !.quorum = totalSupply[proposal.tokenAddress]]
    ELSE [proposal EXCEPT !.votesAgainst = @ + weight,
                          !.quorum = totalSupply[proposal.tokenAddress]]

\* mutant of tallied: the weight goes to the other side
tallied_Swapped(proposal, support, weight) ==
    IF support THEN [proposal EXCEPT !.votesAgainst = @ + weight]
    ELSE [proposal EXCEPT !.votesFor = @ + weight]

\* the proposal record after castVote has added the weight
tallied(proposal, support, weight) ==
    IF support THEN [proposal EXCEPT !.votesFor = @ + weight]
    ELSE [proposal EXCEPT !.votesAgainst = @ + weight]

\* mutant of castVote: the voter's tokens are taken when the vote is cast
castVote_TakesTokens(c, proposalId, support) ==
    LET err == castVoteError(c, proposalId, support)
        weight == voteWeight(proposals[proposalId], c)
        t == proposals[proposalId].tokenAddress
    IN  IF err # OK THEN Revert("castVote", err)
        ELSE /\ votes' = [votes EXCEPT ![proposalId][c] = newVote(support, weight)]
             /\ proposals' = [proposals EXCEPT ![proposalId] = tallied(@, support, weight)]
             /\ emitted' = <<VoteCastEv(proposalId, c, support, weight)>>
             /\ balances' = [balances EXCEPT ![t][c] = 0]
             /\ UNCHANGED <<now, mirrorVars, kind, owner, decimals, transferable, distributors,
                            totalSupply, minted, factoryVars, proposalCount>>

\* Governance.castVote, called by c
castVote(c, proposalId, support) ==
    LET err == castVoteError(c, proposalId, support)
        weight == voteWeight(proposals[proposalId], c)
    IN  IF err # OK THEN Revert("castVote", err)
        ELSE /\ votes' = [votes EXCEPT ![proposalId][c] = newVote(support, weight)]
             /\ proposals' = [proposals EXCEPT ![proposalId] = tallied(@, support, weight)]
             /\ emitted' = <<VoteCastEv(proposalId, c, support, weight)>>
             /\ UNCHANGED <<now, mirrorVars, tokenVars, factoryVars, proposalCount>>

\* mutant of executeProposalError: the check of the executed flag is missing
executeProposalError_NoExecutedCheck(proposalId) ==
    LET proposal == proposals[proposalId] IN
    IF ~(proposal.id = proposalId) THEN ProposalNotFound
    ELSE IF ~(now > proposal.endTime) THEN VotingNotEnded
    ELSE IF proposal.votesFor + proposal.votesAgainst > UintMax THEN Panic
    ELSE IF ~(proposal.votesFor + proposal.votesAgainst >= proposal.quorum) THEN QuorumNotReached
    ELSE OK

\* mutant of executeProposalError: the window is not checked
executeProposalError_NoWindow(proposalId) ==
    LET proposal == proposals[proposalId] IN
    IF ~(proposal.id = proposalId) THEN ProposalNotFound
    ELSE IF proposal.executed THEN AlreadyExecuted
    ELSE IF proposal.votesFor + proposal.votesAgainst > UintMax THEN Panic
    ELSE IF ~(proposal.votesFor + proposal.votesAgainst >= proposal.quorum) THEN QuorumNotReached
    ELSE OK

\* mutant of executeProposalError: the tallies must exceed the quorum
executeProposalError_StrictQuorum(proposalId) ==
    LET proposal == proposals[proposalId] IN
    IF ~(proposal.id = proposalId) THEN ProposalNotFound
    ELSE IF ~(now > proposal.endTime) THEN VotingNotEnded
    ELSE IF proposal.executed THEN AlreadyExecuted
    ELSE IF proposal.votesFor + proposal.votesAgainst > UintMax THEN Panic
    ELSE IF ~(proposal.votesFor + proposal.votesAgainst > proposal.quorum) THEN QuorumNotReached
    ELSE OK

\* the outcome of the checks of executeProposal, in their order
executeProposalError(proposalId) ==
    LET proposal == proposals[proposalId] IN
    IF ~(proposal.id = proposalId) THEN ProposalNotFound
    ELSE IF ~(now > proposal.endTime) THEN VotingNotEnded
    ELSE IF proposal.executed THEN AlreadyExecuted
    ELSE IF proposal.votesFor + proposal.votesAgainst > UintMax THEN Panic
    ELSE IF ~(proposal.votesFor + proposal.votesAgainst >= proposal.quorum) THEN QuorumNotReached
    ELSE OK

\* mutant of passed: a tie passes
passed_TieWins(proposal) == proposal.votesFor >= proposal.votesAgainst

\* the outcome executeProposal reports
passed(proposal) == proposal.votesFor > proposal.votesAgainst

\* mutant of executeProposal: the tallies are cleared on execution
executeProposal_ClearsTallies(c, proposalId) ==
    LET err == executeProposalError(proposalId) IN
    IF err # OK THEN Revert("executeProposal", err)
    ELSE /\ proposals' = [proposals EXCEPT ![proposalId].executed = TRUE,
                                           ![proposalId].votesFor = 0,
                                           ![proposalId].votesAgainst = 0]
         /\ emitted' = <<ProposalExecutedEv(proposalId, passed(proposals[proposalId]))>>
         /\ UNCHANGED <<now, mirrorVars, tokenVars, factoryVars, proposalCount, votes>>

\* Governance.executeProposal, called by c
executeProposal(c, proposalId) ==
    LET err == executeProposalError(proposalId) IN
    IF err # OK THEN Revert("executeProposal", err)
    ELSE /\ proposals' = [proposals EXCEPT ![proposalId].executed = TRUE]
         /\ emitted' = <<ProposalExecutedEv(proposalId, passed(proposals[proposalId]))>>
         /\ UNCHANGED <<now, mirrorVars, tokenVars, factoryVars, proposalCount, votes>>

\* the read functions
hasVoted(proposalId, voter) == votes[proposalId][voter].voted
getVote(proposalId, voter) == votes[proposalId][voter]
getProposalError(proposalId) ==
    IF ~(proposals[proposalId].id = proposalId) THEN ProposalNotFound ELSE OK
getProposal(proposalId) == proposals[proposalId]
getTokenCount == Len(tokens)
getTokensByCreator(creator) == creatorTokens[creator]
getCreatorTokenCount(creator) == Len(creatorTokens[creator])

\* ------------------------------------------------------------------ Next
SeqsUpTo(S, n) == UNION {[1..k -> S] : k \in 0..n}

\* Amounts of one unit are drawn only while the sender's balance is small, so
\* that a large balance is not taken apart unit by unit; one unit is minted
\* only while the supply is small.
UnitOK(t, from, amounts) ==
    (\E i \in DOMAIN amounts : amounts[i] = 1) => balances[t][from] <= MaxSmallSupply
MintOK(t, amount) == amount = 1 => totalSupply[t] < MaxSmallSupply

\* the (tokenAddress, duration, quorumPercent) that createProposal is called
\* with: the two well-formed ones and one for each argument that is refused
ProposalInputs ==
    {<<101, 1, 1>>, <<101, 1, 100>>,
     <<ZERO, 1, 100>>, <<101, 1, 0>>, <<101, 1, 101>>, <<101, 0, 100>>, <<103, 1, 100>>}

\* a proposal is created only while the next id is one of CreatableIds
CreateOK(c, t, d, q) ==
    createProposalError(c, t, d, q) = OK => (proposalCount + 1) \in CreatableIds

\* one token is deployed, at the first address
FirstToken == deployedTokens = {}

\* The deployed system: Governance over the token that TokenFactory creates.
Next ==
    \/ Tick
    \/ \E c \in {1}, s \in Supplies, d \in {0}, f \in BOOLEAN :
            FirstToken /\ createToken(c, s, d, f)
    \/ \E t \in TokenAddrs, c \in Users, to \in Holders, a \in Amounts :
            UnitOK(t, c, <<a>>) /\ transfer(t, c, to, a)
    \/ \E t \in TokenAddrs, c \in Users, to \in Holders, a \in {1} :
            MintOK(t, a) /\ mint(t, c, to, a)
    \/ \E t \in TokenAddrs, c \in Users, f \in BOOLEAN :
            setTransferable(t, c, f)
    \/ \E c \in Users, in \in ProposalInputs :
            CreateOK(c, in[1], in[2], in[3]) /\ createProposal(c, in[1], in[2], in[3])
    \/ \E c \in Users, i \in ProposalIds, s \in BOOLEAN :
            castVote(c, i, s)
    \/ \E c \in {1}, i \in ProposalIds :
            executeProposal(c, i)

Spec == Init /\ [][Next]_vars

\* The two token contracts and the factory on their own, with wider inputs.
NextToken ==
    \/ \E s \in Supplies, d \in DecimalsIn, o \in Holders, f \in BOOLEAN :
            FirstToken /\ deployCustomToken(s, d, o, f)
    \/ \E c \in Users, s \in Supplies, d \in DecimalsIn, f \in BOOLEAN :
            FirstToken /\ createToken(c, s, d, f)
    \/ \E t \in TokenAddrs, c \in Users, to \in Holders, a \in Amounts :
            UnitOK(t, c, <<a>>) /\ transfer(t, c, to, a)
    \/ \E t \in TokenAddrs, c \in Users, to \in Holders, a \in Amounts :
            MintOK(t, a) /\ mint(t, c, to, a)
    \/ \E t \in TokenAddrs, c \in Users, f \in BOOLEAN :
            setTransferable(t, c, f)
    \/ \E t \in TokenAddrs, c \in Users, a \in Holders, f \in BOOLEAN :
            setDistributor(t, c, a, f)
    \/ \E t \in TokenAddrs, c \in Users :
       \E rs \in SeqsUpTo(Holders, MaxDistribute), as \in SeqsUpTo(Amounts, MaxDistribute) :
            UnitOK(t, c, as) /\ distributeTokens(t, c, rs, as)

SpecToken == Init /\ [][NextToken]_vars

\* Governance with several proposals on one transferable token of supply 2:
\* proposals are created while the next id is one of ProposalIds; account 1
\* votes for and account 2 votes against.
CreateWithin(c, t, d, q) ==
    createProposalError(c, t, d, q) = OK => (proposalCount + 1) \in ProposalIds

NextIds ==
    \/ Tick
    \/ \E c \in {1}, s \in {2}, d \in {0}, f \in {TRUE} :
            FirstToken /\ createToken(c, s, d, f)
    \/ \E t \in TokenAddrs, c \in Users, to \in Users, a \in {1} :
            transfer(t, c, to, a)
    \/ \E c \in Users, t \in TokenArgs, d \in Durations, q \in {0, 100} :
            CreateWithin(c, t, d, q) /\ createProposal(c, t, d, q)
    \/ \E c \in Users, i \in ProposalIds :
            castVote(c, i, c = 1)
    \/ \E c \in {1}, i \in ProposalIds :
            executeProposal(c, i)

SpecIds == Init /\ [][NextIds]_vars

\* TokenFactory on its own: both accounts create tokens until every address
\* of TokenAddrs is taken.
NextFactory ==
    \E c \in Users, s \in {2}, d \in DecimalsIn, f \in BOOLEAN :
        createToken(c, s, d, f)

SpecFactory == Init /\ [][NextFactory]_vars

\* Governance over one token of either contract: the token is deployed with
\* supply 2 (or 20 when the constructor scales by one decimal), its holders
\* move and mint single units, and proposals are created on it.
NextSupply ==
    \/ \E s \in {2}, d \in DecimalsIn, o \in {1}, f \in BOOLEAN :
            FirstToken /\ deployCustomToken(s, d, o, f)
    \/ \E c \in {1}, s \in {2}, d \in {0}, f \in BOOLEAN :
            FirstToken /\ createToken(c, s, d, f)
    \/ \E t \in TokenAddrs, c \in Users, to \in Holders, a \in {1} :
            transfer(t, c, to, a)
    \/ \E t \in TokenAddrs, c \in Users, to \in Users, a \in {1} :
            MintOK(t, a) /\ mint(t, c, to, a)
    \/ \E t \in TokenAddrs, c \in Users, f \in BOOLEAN :
            setTransferable(t, c, f)
    \/ \E t \in TokenAddrs, c \in Users, to \in Holders :
            distributeTokens(t, c, <<to>>, <<1>>)
    \/ \E c \in Users, q \in {1, 100} :
            CreateOK(c, 101, 1, q) /\ createProposal(c, 101, 1, q)

SpecSupply == Init /\ [][NextSupply]_vars

\* ------------------------------------------------- the off-chain mirror
\* String.prototype.toLowerCase on the spellings of VoterAddresses
toLowerCase(str) == IF str = "0xAB" THEN "0xab" ELSE str

\* DatabaseStorage.createProposal: the row starts with both tallies at "0"
storage_createProposal == Append(proposalsTable, [votesFor |-> 0, votesAgainst |-> 0])

\* DatabaseStorage.getProposalById
storage_getProposalById(id) ==
    IF id \in DOMAIN proposalsTable
    THEN ProposalRow(id, proposalsTable[id].votesFor, proposalsTable[id].votesAgainst)
    ELSE NoProposalRow

\* DatabaseStorage.updateProposalVotes
storage_updateProposalVotes(id, votesFor, votesAgainst) ==
    [proposalsTable EXCEPT ![id] = [votesFor |-> votesFor, votesAgainst |-> votesAgainst]]

\* DatabaseStorage.hasVoted
storage_hasVoted(proposalId, voterAddress) ==
    \E k \in DOMAIN votesTable :
        /\ votesTable[k].proposalId = proposalId
        /\ toLowerCase(votesTable[k].voterAddress) = toLowerCase(voterAddress)

\* the tallies DatabaseStorage.createVote computes from the row it read
createVoteTallies(row, voteData) ==
    IF voteData.voteDirection = "for"
    THEN ProposalRow(row.id, row.votesFor + voteData.voteAmount, row.votesAgainst)
    ELSE ProposalRow(row.id, row.votesFor, row.votesAgainst + voteData.voteAmount)

\* the tallies the route computes from the row it read before createVote
routeTallies(row, voteData) ==
    ProposalRow(row.id,
        IF voteData.voteDirection = "for"
            THEN row.votesFor + voteData.voteAmount ELSE row.votesFor,
        IF voteData.voteDirection = "against"
            THEN row.votesAgainst + voteData.voteAmount ELSE row.votesAgainst)

\* POST /api/proposals
postProposals ==
    /\ Len(proposalsTable) < MaxMirrorProposals
    /\ proposalsTable' = storage_createProposal
    /\ UNCHANGED <<votesTable, handlers, chainVars>>

\* POST /api/votes, request r: the body is parsed and hasVoted is awaited
postVotes(r, voteData) ==
    /\ handlers[r].pc = "idle"
    /\ \A q \in Requests : q < r => handlers[q].pc # "idle"
    /\ handlers' = [handlers EXCEPT ![r].pc = "hasVoted", ![r].voteData = voteData]
    /\ UNCHANGED <<proposalsTable, votesTable, chainVars>>

\* hasVoted resolves: 400 when a vote is recorded, else getProposalById is
\* awaited
postVotes_hasVoted(r) ==
    /\ handlers[r].pc = "hasVoted"
    /\ handlers' =
         IF storage_hasVoted(handlers[r].voteData.proposalId, handlers[r].voteData.voterAddress)
         THEN [handlers EXCEPT ![r].pc = "done", ![r].status = 400]
         ELSE [handlers EXCEPT ![r].pc = "getProposalById"]
    /\ UNCHANGED <<proposalsTable, votesTable, chainVars>>

\* getProposalById resolves: 404 when there is no row, else createVote is
\* called and its insert is awaited
postVotes_getProposalById(r) ==
    /\ handlers[r].pc = "getProposalById"
    /\ LET proposal == storage_getProposalById(handlers[r].voteData.proposalId) IN
       handlers' =
         IF proposal = NoProposalRow
         THEN [handlers EXCEPT ![r].pc = "done", ![r].status = 404]
         ELSE [handlers EXCEPT ![r].pc = "createVote", ![r].proposal = proposal]
    /\ UNCHANGED <<proposalsTable, votesTable, chainVars>>

\* DatabaseStorage.createVote: the insert resolves, getProposalById is awaited
createVote_insert(r) ==
    /\ handlers[r].pc = "createVote"
    /\ votesTable' = Append(votesTable, handlers[r].voteData)
    /\ handlers' = [handlers EXCEPT ![r].pc = "createVote_getProposalById"]
    /\ UNCHANGED <<proposalsTable, chainVars>>

\* DatabaseStorage.createVote: getProposalById resolves, updateProposalVotes
\* is awaited when there is a row
createVote_getProposalById(r) ==
    /\ handlers[r].pc = "createVote_getProposalById"
    /\ LET proposal == storage_getProposalById(handlers[r].voteData.proposalId) IN
       handlers' =
         IF proposal = NoProposalRow
         THEN [handlers EXCEPT ![r].pc = "updateProposalVotes"]
         ELSE [handlers EXCEPT ![r].pc = "createVote_updateProposalVotes", ![r].inner = proposal]
    /\ UNCHANGED <<proposalsTable, votesTable, chainVars>>

\* DatabaseStorage.createVote: updateProposalVotes resolves and createVote
\* returns; the route awaits its own updateProposalVotes
createVote_updateProposalVotes(r) ==
    /\ handlers[r].pc = "createVote_updateProposalVotes"
    /\ LET t == createVoteTallies(handlers[r].inner, handlers[r].voteData) IN
       proposalsTable' = storage_updateProposalVotes(t.id, t.votesFor, t.votesAgainst)
    /\ handlers' = [handlers EXCEPT ![r].pc = "updateProposalVotes"]
    /\ UNCHANGED <<votesTable, chainVars>>

\* the route's updateProposalVotes resolves and the handler responds 201
postVotes_updateProposalVotes(r) ==
    /\ handlers[r].pc = "updateProposalVotes"
    /\ LET t == routeTallies(handlers[r].proposal, handlers[r].voteData) IN
       proposalsTable' = storage_updateProposalVotes(t.id, t.votesFor, t.votesAgainst)
    /\ handlers' = [handlers EXCEPT ![r].pc = "done", ![r].status = 201]
    /\ UNCHANGED <<votesTable, chainVars>>

\* the bodies the requests carry: the first account in both spellings, the
\* second account, and a proposal the mirror does not have
VoteInputs ==
    {VoteData(1, "0xab", 1, "for"), VoteData(1, "0xAB", 2, "against"),
     VoteData(1, "0xcd", 1, "for"), VoteData(MissingProposalId, "0xab", 1, "for")}

\* The server: MaxRequests requests to POST /api/votes, each resumed at its
\* awaits in any order, over the proposals that POST /api/proposals stored.
NextMirror ==
    \/ postProposals
    \/ \E r \in Requests, voteData \in VoteInputs : postVotes(r, voteData)
    \/ \E r \in Requests : postVotes_hasVoted(r)
    \/ \E r \in Requests : postVotes_getProposalById(r)
    \/ \E r \in Requests : createVote_insert(r)
    \/ \E r \in Requests : createVote_getProposalById(r)
    \/ \E r \in Requests : createVote_updateProposalVotes(r)
    \/ \E r \in Requests : postVotes_updateProposalVotes(r)

SpecMirror == Init /\ [][NextMirror]_vars

\* ------------------------------------------------------------ the claims
createdIds == 1..proposalCount

sumVotes(proposal) == proposal.votesFor + proposal.votesAgainst

\* the result of ERC20.transfer(to, value) called by from on token t
transferError(t, from, to, value) ==
    _transfer(kind[t], transferable[t], distributors[t], t, Ledger(t), from, to, value).err

\* the result of mint(to, value) called by c on the mintable token t
mintError(t, c, to, value) ==
    IF c # owner[t] THEN OwnableUnauthorizedAccount
    ELSE _mint(kind[t], transferable[t], distributors[t], t, Ledger(t), to, value).err

\* C1 as stated: once (proposalId, voter) has a ballot, every castVote of that
\* voter on that proposal fails with AlreadyVoted.
C1_Original ==
    \A i \in ProposalIds, v \in Users, s \in BOOLEAN :
        votes[i][v].voted => castVoteError(v, i, s) = AlreadyVoted

\* C1 as amended: castVote succeeds at most once per (proposalId, voter): once
\* the ballot exists every later castVote of that voter on that proposal fails,
\* with AlreadyVoted while now <= endTime and with VotingClosed after endTime,
\* and no step changes the ballot again; a failed call changes no tally.
C1_AtMostOneVote ==
    /\ [](\A i \in ProposalIds, v \in Users, s \in BOOLEAN :
            votes[i][v].voted =>
                castVoteError(v, i, s) =
                    (IF now <= proposals[i].endTime THEN AlreadyVoted ELSE VotingClosed))
    /\ [][\A i \in ProposalIds, v \in Users :
            votes[i][v].voted => votes'[i][v] = votes[i][v]]_vars

\* a voter who holds tokens and has a ballot tries again while the vote is open
C1_Witness ==
    \E i \in createdIds, v \in Users :
        /\ votes[i][v].voted
        /\ now <= proposals[i].endTime
        /\ voteWeight(proposals[i], v) > 0
        /\ castVoteError(v, i, TRUE) = AlreadyVoted

\* C2 as stated: executeProposal on an id that createProposal never returned
\* fails (with ProposalNotFound), so no such call changes the stored state or
\* emits an event.
C2_Original ==
    [][\A i \in ProposalIds, c \in Users :
          (i \notin createdIds /\ executeProposal(c, i)) => UNCHANGED <<govVars, emitted>>]_vars

\* C3: once a proposal is executed, every executeProposal on it fails with
\* AlreadyExecuted, and no step changes its executed flag or its tallies or
\* emits another ProposalExecuted for it.
C3_ExecutedOnce ==
    /\ [](\A i \in ProposalIds :
            proposals[i].executed => executeProposalError(i) = AlreadyExecuted)
    /\ [][\A i \in ProposalIds :
            proposals[i].executed =>
                /\ proposals'[i].executed
                /\ proposals'[i].votesFor = proposals[i].votesFor
                /\ proposals'[i].votesAgainst = proposals[i].votesAgainst
                /\ passed(proposals'[i]) = passed(proposals[i])
                /\ (emitted' # emitted =>
                        \A b \in BOOLEAN : emitted' # <<ProposalExecutedEv(i, b)>>)]_vars

\* an executed proposal on which a further executeProposal is refused
C3_Witness ==
    \E i \in createdIds :
        /\ proposals[i].executed
        /\ executeProposalError(i) = AlreadyExecuted

\* C4: no step changes the quorum of a created proposal.
C4_QuorumFrozen ==
    [][\A i \in createdIds : proposals'[i].quorum = proposals[i].quorum]_vars

\* a proposal created at 100 percent of a supply of 2 whose token has since
\* been minted to a supply of 3
C4_Witness ==
    \E i \in createdIds :
        /\ proposals[i].quorum = 2
        /\ totalSupply[proposals[i].tokenAddress] = 3

\* C5: for every token the balances add up to totalSupply, which is the
\* cumulative amount minted.
C5_Conservation ==
    \A t \in TokenAddrs :
        /\ SumOver(balances[t], Holders) = totalSupply[t]
        /\ totalSupply[t] = minted[t]

\* a token that was minted after its creation and whose tokens are spread
\* over both accounts
C5_Witness ==
    \E t \in TokenAddrs :
        /\ minted[t] > Half
        /\ balances[t][1] > 0
        /\ balances[t][2] > 0

\* C6: while transferable is false, a transfer from a non-null source that is
\* no registered distributor to a non-null destination fails with
\* TransfersDisabled, whatever the amount and the balance.
C6_TransferGate ==
    \A t \in deployedTokens, from \in Users, to \in Users, a \in Amounts \cup {0, UintMax} :
        (~transferable[t] /\ ~distributors[t][from]) =>
            transferError(t, from, to, a) = TransfersDisabled

\* a holder who is no distributor of a token with a distributor registry, and
\* whose balance would cover the transfer that the gate refuses
C6_Witness ==
    \E t \in deployedTokens, from \in Users :
        /\ kind[t] = "distributor"
        /\ ~transferable[t]
        /\ ~distributors[t][from]
        /\ balances[t][from] >= 1
        /\ transferError(t, from, 3 - from, 1) = TransfersDisabled

\* the registered distributors the claim speaks of: the entries of the
\* distributors mapping and, where the contract has no such mapping, the owner
\* who created the token
claimedDistributor(t, a) ==
    IF kind[t] = "distributor" THEN distributors[t][a] ELSE a = owner[t]

\* C7 as stated: while transferable is false, a transfer from a registered
\* distributor (initially the creating owner) to another account succeeds when
\* the balance covers the amount, and a mint by the owner that fits the supply
\* succeeds whatever the flag.
C7_Original ==
    \A t \in deployedTokens, from \in Users, to \in Users, a \in Amounts :
        /\ (~transferable[t] /\ claimedDistributor(t, from) /\ balances[t][from] >= a) =>
                transferError(t, from, to, a) = OK
        /\ (kind[t] = "mintable" /\ totalSupply[t] + a <= UintMax) =>
                mintError(t, owner[t], to, a) = OK

\* C8: castVote passes the window check exactly while now <= endTime and fails
\* with VotingClosed after; executeProposal fails with VotingNotEnded exactly
\* while now <= endTime; so neither can succeed in the other's window.
C8_Windows ==
    \A i \in createdIds, c \in Users, s \in BOOLEAN :
        /\ now > proposals[i].endTime => castVoteError(c, i, s) = VotingClosed
        /\ now <= proposals[i].endTime => castVoteError(c, i, s) # VotingClosed
        /\ castVoteError(c, i, s) = OK => now <= proposals[i].endTime
        /\ now <= proposals[i].endTime => executeProposalError(i) = VotingNotEnded
        /\ now > proposals[i].endTime => executeProposalError(i) # VotingNotEnded
        /\ executeProposalError(i) = OK => now > proposals[i].endTime

\* at now = endTime a vote is still admitted and the execution is refused
C8_Witness ==
    \E i \in createdIds, c \in Users :
        /\ now = proposals[i].endTime
        /\ castVoteError(c, i, TRUE) = OK
        /\ executeProposalError(i) = VotingNotEnded

\* C9 as stated: after endTime, executeProposal on a created, unexecuted
\* proposal fails with QuorumNotReached exactly when votesFor + votesAgainst
\* < quorum and otherwise succeeds; an executed proposal has reached its quorum.
C9_Original ==
    \A i \in createdIds :
        /\ (~proposals[i].executed /\ now > proposals[i].endTime) =>
                executeProposalError(i) =
                    (IF sumVotes(proposals[i]) < proposals[i].quorum
                     THEN QuorumNotReached ELSE OK)
        /\ proposals[i].executed => sumVotes(proposals[i]) >= proposals[i].quorum

\* C10: the step that executes a proposal emits ProposalExecuted with passed
\* true exactly when votesFor > votesAgainst at that moment.
C10_Outcome ==
    [][\A i \in ProposalIds :
          (~proposals[i].executed /\ proposals'[i].executed) =>
              emitted' = <<ProposalExecutedEv(i,
                              proposals[i].votesFor > proposals[i].votesAgainst)>>]_vars

\* a proposal executed on a tie of 1 to 1, reported as not passed
C10_Witness ==
    \E i \in createdIds :
        /\ proposals[i].executed
        /\ proposals[i].votesFor = proposals[i].votesAgainst
        /\ proposals[i].votesFor > 0
        /\ emitted = <<ProposalExecutedEv(i, FALSE)>>

\* C11: the step in which (proposalId, caller) gets its ballot stores voted =
\* true with the caller's balance on the proposal's token at that moment as
\* weight, a weight above 0, and adds exactly that weight to votesFor when
\* support is true and to votesAgainst when it is false, leaving the other
\* tally alone; no later step changes the stored ballot, whatever happens to
\* the voter's balance.
C11_Ballot ==
    [][\/ votes' = votes
       \/ \A i \in ProposalIds, c \in Users :
            IF votes[i][c].voted THEN votes'[i][c] = votes[i][c]
            ELSE votes'[i][c].voted =>
                LET w == balanceOf(proposals[i].tokenAddress, c)
                    s == votes'[i][c].support
                IN  /\ castVoteError(c, i, s) = OK
                    /\ w > 0
                    /\ votes'[i][c] = [voted |-> TRUE, support |-> s, weight |-> w]
                    /\ emitted' = <<VoteCastEv(i, c, s, w)>>
                    /\ proposals'[i].votesFor = proposals[i].votesFor + (IF s THEN w ELSE 0)
                    /\ proposals'[i].votesAgainst =
                            proposals[i].votesAgainst + (IF s THEN 0 ELSE w)]_vars

\* a ballot against whose weight is on votesAgainst only and differs from the
\* balance the voter holds now
C11_Witness ==
    \E i \in createdIds, c \in Users :
        /\ votes[i][c].voted
        /\ ~votes[i][c].support
        /\ proposals[i].votesAgainst = votes[i][c].weight
        /\ proposals[i].votesFor = 0
        /\ votes[i][c].weight # balanceOf(proposals[i].tokenAddress, c)

\* C12: createProposal fails with InvalidToken for the null address, otherwise
\* with InvalidQuorum for a quorumPercent of 0 or above 100, otherwise with
\* InvalidDuration for a duration of 0, otherwise, on a deployed token, with
\* NotATokenHolder when the caller's balance is 0, and with none of the four
\* when none of the four conditions holds; proposalCount and the proposal
\* records change in no step of a createProposal whose checks fail.
C12_Validation ==
    /\ [](\A c \in Users, t \in TokenArgs, d \in Durations, q \in Percents :
            IF t = ZERO THEN createProposalError(c, t, d, q) = InvalidToken
            ELSE IF q = 0 \/ q > 100 THEN createProposalError(c, t, d, q) = InvalidQuorum
            ELSE IF d = 0 THEN createProposalError(c, t, d, q) = InvalidDuration
            ELSE IF ~hasCode(t) THEN TRUE
            ELSE IF balanceOf(t, c) = 0 THEN createProposalError(c, t, d, q) = NotATokenHolder
            ELSE createProposalError(c, t, d, q) \notin
                    {InvalidToken, InvalidQuorum, InvalidDuration, NotATokenHolder})
    /\ [][\/ UNCHANGED <<proposalCount, proposals>>
          \/ \A c \in Users, t \in TokenArgs, d \in Durations, q \in Percents :
                ~(createProposalError(c, t, d, q) # OK /\ createProposal(c, t, d, q))]_vars
    /\ [][proposalCount' # proposalCount \/ (\E i \in createdIds : proposals'[i].id # i) =>
            \E c \in Users, t \in TokenArgs, d \in Durations, q \in Percents :
                createProposalError(c, t, d, q) = OK]_vars

\* a deployed token of which one account holds nothing and the other holds
\* some: the first is refused as no token holder, and refused for the quorum
\* when quorum and duration are both wrong
C12_Witness ==
    \E t \in deployedTokens, c \in Users :
        /\ balanceOf(t, c) = 0
        /\ balanceOf(t, 3 - c) > 0
        /\ createProposalError(c, t, 1, 100) = NotATokenHolder
        /\ createProposalError(c, t, 0, 0) = InvalidQuorum
        /\ createProposalError(c, ZERO, 0, 0) = InvalidToken
        /\ createProposalError(c, t, 0, 100) = InvalidDuration

\* C13: ids are assigned 1, 2, 3, ... in creation order.  Every successful
\* createProposal returns the previous proposalCount + 1 and advances
\* proposalCount by one, no other step changes proposalCount (so it counts
\* the successful calls and no id is returned twice), the ids 1..proposalCount
\* hold the records created under them, the slots above are untouched, and a
\* createProposal changes no record stored under an earlier id.
C13_Ids ==
    /\ [](\A i \in ProposalIds :
            IF i \in createdIds
            THEN proposals[i].id = i /\ proposals[i].creator # ZERO
            ELSE proposals[i].id = 0 /\ proposals[i].creator = ZERO)
    /\ [][\/ UNCHANGED vars
          \/ \A c \in Users, t \in deployedTokens, d \in Durations, q \in Percents :
            (createProposalError(c, t, d, q) = OK /\ createProposal(c, t, d, q)) =>
                /\ proposalCount' = proposalCount + 1
                /\ emitted'[1].name = "ProposalCreated"
                /\ emitted'[1].id = proposalCount + 1
                /\ proposals'[proposalCount + 1].id = proposalCount + 1
                /\ \A i \in createdIds : proposals'[i] = proposals[i]]_vars
    /\ [][/\ proposalCount' \in {proposalCount, proposalCount + 1}
          /\ proposalCount' # proposalCount =>
                /\ emitted'[1].name = "ProposalCreated"
                /\ emitted'[1].id = proposalCount'
          /\ \A i \in createdIds :
                /\ proposals'[i].id = proposals[i].id
                /\ proposals'[i].creator = proposals[i].creator
                /\ proposals'[i].tokenAddress = proposals[i].tokenAddress
                /\ proposals'[i].startTime = proposals[i].startTime
                /\ proposals'[i].endTime = proposals[i].endTime]_vars

\* two proposals of different creators, the second created later than the
\* first, after the first has taken a vote
C13_Witness ==
    /\ proposalCount = 2
    /\ proposals[1].creator # proposals[2].creator
    /\ proposals[1].startTime < proposals[2].startTime
    /\ proposals[1].votesFor > 0
    /\ proposals[2].votesFor = 0

\* C14: a successful createProposal(tokenAddress, duration, quorumPercent) by
\* c, the step that advances proposalCount, stores under the new id quorum =
\* floor(quorumPercent * totalSupply / 100) with the token's supply of that
\* moment, startTime = now, endTime = now + duration, votesFor =
\* votesAgainst = 0 and executed = false.
C14_Stored ==
    [][proposalCount' = proposalCount \/
       \A c \in Users, t \in deployedTokens, d \in Durations, q \in Percents :
          (createProposalError(c, t, d, q) = OK /\ createProposal(c, t, d, q)) =>
              LET p == proposals'[proposalCount + 1]
                  product == q * totalSupply[t]
              IN  /\ p.quorum * 100 <= product
                  /\ product < (p.quorum + 1) * 100
                  /\ p.tokenAddress = t
                  /\ p.creator = c
                  /\ p.startTime = now
                  /\ p.endTime = now + d
                  /\ p.votesFor = 0
                  /\ p.votesAgainst = 0
                  /\ p.executed = FALSE]_vars

\* a proposal created at 1 percent of a supply of Half, whose quorum is the
\* quotient rounded down, and that has taken no vote yet
C14_Witness ==
    \E i \in createdIds :
        /\ totalSupply[proposals[i].tokenAddress] = Half
        /\ proposals[i].quorum * 100 < Half
        /\ proposals[i].quorum = Half \div 100
        /\ proposals[i].endTime = proposals[i].startTime + 1
        /\ sumVotes(proposals[i]) = 0
        /\ ~proposals[i].executed

\* C15 as stated: getProposal fails with ProposalNotFound for every id that
\* createProposal has not returned, id 0 included, and getVote and hasVoted
\* give the default not-voted record for every (id, voter) without a ballot,
\* ids of no proposal included.
C15_Original ==
    /\ \A i \in ProposalIds \ createdIds : getProposalError(i) = ProposalNotFound
    /\ \A i \in ProposalIds, v \in Users :
            /\ ~hasVoted(i, v) => getVote(i, v) = DefaultVote
            /\ i \notin createdIds => (~hasVoted(i, v) /\ getVote(i, v) = DefaultVote)

\* the result of distributeTokens(recipients, amounts) called by c on token t
distributeTokensError(t, c, recipients, amounts) ==
    IF ~distributors[t][c] THEN NotAuthorized
    ELSE IF Len(recipients) # Len(amounts) THEN LengthMismatch
    ELSE distributeLoop(t, Ledger(t), c, recipients, amounts, 1).err

\* the balances after transfer(sender, recipients[i], amounts[i]) for i, i + 1,
\* ... in this order, each moving its amount from the sender to the recipient
RECURSIVE transfersInOrder(_, _, _, _, _)
transfersInOrder(bal, sender, recipients, amounts, i) ==
    IF i > Len(recipients) THEN bal
    ELSE LET debited == [bal EXCEPT ![sender] = @ - amounts[i]]
             credited == [debited EXCEPT ![recipients[i]] = @ + amounts[i]]
         IN  transfersInOrder(credited, sender, recipients, amounts, i + 1)

\* what the amounts sent to others than the sender add up to
RECURSIVE owed(_, _, _, _)
owed(sender, recipients, amounts, i) ==
    IF i > Len(recipients) THEN 0
    ELSE (IF recipients[i] = sender THEN 0 ELSE amounts[i])
         + owed(sender, recipients, amounts, i + 1)

DistributeInputs ==
    SeqsUpTo(Holders, MaxDistribute) \X SeqsUpTo(Amounts, MaxDistribute)

\* C16: distributeTokens is all-or-nothing.  It fails with LengthMismatch when
\* a distributor passes arrays of different lengths, and fails when the
\* amounts sent to others exceed the sender's balance; a failing call changes
\* no balance; a successful call leaves the balances that result from the
\* transfers applied one by one in input order.
C16_AllOrNothing ==
    /\ [](\A t \in deployedTokens, c \in Users, in \in DistributeInputs :
            (kind[t] = "distributor" /\ distributors[t][c]) =>
                /\ Len(in[1]) # Len(in[2]) =>
                        distributeTokensError(t, c, in[1], in[2]) = LengthMismatch
                /\ (Len(in[1]) = Len(in[2]) /\ owed(c, in[1], in[2], 1) > balances[t][c]) =>
                        distributeTokensError(t, c, in[1], in[2]) # OK)
    /\ [][\/ UNCHANGED vars
          \/ \A t \in deployedTokens, c \in Users, in \in DistributeInputs :
                distributeTokens(t, c, in[1], in[2]) =>
                    IF distributeTokensError(t, c, in[1], in[2]) # OK
                    THEN UNCHANGED <<balances, totalSupply>>
                    ELSE /\ balances'[t] = transfersInOrder(balances[t], c, in[1], in[2], 1)
                         /\ totalSupply' = totalSupply]_vars

\* a distributor who has handed out one of two tokens: a distribution of two
\* more units fails at its second pair although the first pair alone would
\* go through
C16_Witness ==
    \E t \in deployedTokens, c \in Users :
        /\ kind[t] = "distributor"
        /\ distributors[t][c]
        /\ balances[t][c] = 1
        /\ balances[t][3 - c] = 1
        /\ transferError(t, c, 3 - c, 1) = OK
        /\ distributeTokensError(t, c, <<3 - c, 3 - c>>, <<1, 1>>) = ERC20InsufficientBalance

\* the result of setTransferable and of setDistributor called by c on token t
setTransferableError(t, c) == IF c # owner[t] THEN OwnableUnauthorizedAccount ELSE OK
setDistributorError(t, c) == IF c # owner[t] THEN OwnableUnauthorizedAccount ELSE OK

\* the failures by which the contracts refuse a caller for what he is: the
\* onlyOwner modifier's and the distributor check's
refusedCaller(err) == err \in {OwnableUnauthorizedAccount, NotAuthorized}

\* C17: setTransferable and setDistributor refuse every caller but the owner,
\* distributeTokens refuses every caller that is no registered distributor
\* (whatever the arrays), and a refused call changes nothing; the flag and the
\* distributor set of a deployed token change only in a step of an owner's
\* setTransferable or setDistributor.
C17_Privileged ==
    /\ [](\A t \in deployedTokens, c \in Users :
            /\ c # owner[t] => refusedCaller(setTransferableError(t, c))
            /\ (c # owner[t] /\ kind[t] = "distributor") =>
                    refusedCaller(setDistributorError(t, c))
            /\ (kind[t] = "distributor" /\ ~distributors[t][c]) =>
                    \A in \in DistributeInputs :
                        distributeTokensError(t, c, in[1], in[2]) = NotAuthorized)
    /\ [][\/ UNCHANGED vars
          \/ \A t \in deployedTokens, c \in Users :
                /\ c # owner[t] =>
                        /\ \A f \in BOOLEAN : ~setTransferable(t, c, f)
                        /\ \A a \in Holders, f \in BOOLEAN : ~setDistributor(t, c, a, f)
                /\ ~distributors[t][c] =>
                        \A in \in DistributeInputs : ~distributeTokens(t, c, in[1], in[2])]_vars
    /\ [][\A t \in deployedTokens :
            /\ transferable'[t] # transferable[t] =>
                    setTransferable(t, owner[t], transferable'[t])
            /\ distributors'[t] # distributors[t] =>
                    \E a \in Holders : setDistributor(t, owner[t], a, distributors'[t][a])]_vars

\* the owner has made the other account the only distributor: the owner is
\* now refused by distributeTokens, and the distributor by the owner's calls
C17_Witness ==
    \E t \in deployedTokens, u \in Users :
        /\ kind[t] = "distributor"
        /\ u # owner[t]
        /\ distributors[t][u]
        /\ ~distributors[t][owner[t]]
        /\ distributeTokensError(t, owner[t], <<u>>, <<1>>) = NotAuthorized
        /\ setDistributorError(t, u) = OwnableUnauthorizedAccount
        /\ setTransferableError(t, u) = OwnableUnauthorizedAccount

\* C18 as stated: in the state right after a token is created with
\* (totalSupply, decimals, owner), by a direct deployment or through
\* TokenFactory.createToken with owner = the caller, balanceOf(owner) =
\* totalSupply() = totalSupply * 10^decimals, every other balance is 0 and the
\* owner is the only distributor.
C18_Original ==
    [][\A c \in Users, s \in Supplies, d \in DecimalsIn, f \in BOOLEAN :
          LET t == nextTokenAddress
              created ==
                  /\ owner'[t] = c
                  /\ totalSupply'[t] = s * 10^d
                  /\ balances'[t] = [a \in Holders |-> IF a = c THEN s * 10^d ELSE 0]
                  /\ kind'[t] = "distributor" =>
                        distributors'[t] = [a \in Holders |-> a = c]
          IN  /\ (constructorMintable(t, s, d, f, c).err = OK /\ createToken(c, s, d, f)) =>
                    created
              /\ (constructorDistributor(t, s, d, c, f).err = OK
                    /\ deployCustomToken(s, d, c, f)) => created]_vars

\* the addresses a sequence lists
Range(q) == {q[k] : k \in DOMAIN q}

\* C19: every successful createToken by c deploys a token at an address that
\* held none, owned by c, and appends that address once to the global list
\* and once to c's list; no step changes the lists otherwise.  So in every
\* state getTokenCount() is the number of tokens deployed through the
\* factory and the sum of getCreatorTokenCount over the creators,
\* getTokensByCreator(c) is the global list restricted to the tokens c owns,
\* in the same order, and no address is listed twice.
C19_Lists ==
    /\ [](/\ getTokenCount = Cardinality(deployedTokens)
          /\ getTokenCount = SumOver([c \in Users |-> getCreatorTokenCount(c)], Users)
          /\ Range(tokens) = deployedTokens
          /\ \A j, k \in DOMAIN tokens : j # k => tokens[j] # tokens[k]
          /\ \A c \in Users :
                getTokensByCreator(c) = SelectSeq(tokens, LAMBDA t : owner[t] = c))
    /\ [][\A c \in Users, s \in Supplies, d \in DecimalsIn, f \in BOOLEAN :
            (constructorMintable(nextTokenAddress, s, d, f, c).err = OK
                /\ createToken(c, s, d, f)) =>
                    \E t \in TokenAddrs \ deployedTokens :
                        /\ kind'[t] = "mintable"
                        /\ owner'[t] = c
                        /\ tokens' = Append(tokens, t)
                        /\ creatorTokens' = [creatorTokens EXCEPT ![c] = Append(@, t)]
                        /\ emitted'[1].name = "TokenCreated"
                        /\ emitted'[1].token = t]_vars
    /\ [][/\ \/ tokens' = tokens
             \/ \E t \in TokenAddrs \ deployedTokens : tokens' = Append(tokens, t)
          /\ \A c \in Users :
                \/ creatorTokens'[c] = creatorTokens[c]
                \/ \E t \in TokenAddrs \ deployedTokens :
                        creatorTokens'[c] = Append(creatorTokens[c], t)]_vars

\* three tokens, the first and the third created by one account and the
\* second by the other
C19_Witness ==
    /\ getTokenCount = 3
    /\ \E c \in Users :
        /\ getTokensByCreator(c) = <<tokens[1], tokens[3]>>
        /\ getTokensByCreator(3 - c) = <<tokens[2]>>

\* the failure C20 names for castVote(proposalId, support) by c: the first of
\* its five conditions that holds, in the order it gives
claimedCastVoteFailure(c, i) ==
    IF i \notin createdIds THEN ProposalNotFound
    ELSE IF now > proposals[i].endTime THEN VotingClosed
    ELSE IF proposals[i].executed THEN AlreadyExecuted
    ELSE IF votes[i][c].voted THEN AlreadyVoted
    ELSE IF voteWeight(proposals[i], c) = 0 THEN NoVotingPower
    ELSE OK

\* C20 as stated: castVote fails with the first that applies of
\* ProposalNotFound (no proposal was created under the id), VotingClosed,
\* AlreadyExecuted, AlreadyVoted, NoVotingPower, and with none of them when
\* none applies; a failed castVote changes no ballot and no tally.
C20_Original ==
    /\ [](\A c \in Users, i \in ProposalIds, s \in BOOLEAN :
            IF claimedCastVoteFailure(c, i) = OK
            THEN castVoteError(c, i, s) \notin
                    {ProposalNotFound, VotingClosed, AlreadyExecuted, AlreadyVoted, NoVotingPower}
            ELSE castVoteError(c, i, s) = claimedCastVoteFailure(c, i))
    /\ [][\A c \in Users, i \in ProposalIds, s \in BOOLEAN :
            (castVoteError(c, i, s) # OK /\ castVote(c, i, s)) =>
                UNCHANGED <<votes, proposals>>]_vars

\* C21: no step of createProposal, castVote or executeProposal, successful or
\* failed, changes a balance, a totalSupply, a transferable flag, a
\* distributor set or any other token storage.
C21_TokenFrame ==
    [][\/ UNCHANGED tokenVars
       \/ /\ \A c \in Users, t \in TokenArgs, d \in Durations, q \in Percents :
                ~createProposal(c, t, d, q)
          /\ \A c \in Users, i \in ProposalIds, s \in BOOLEAN : ~castVote(c, i, s)
          /\ \A c \in Users, i \in ProposalIds : ~executeProposal(c, i)]_vars

\* a proposal that was created, voted on and executed, whose voter still holds
\* the balance the ballot was weighed with
C21_Witness ==
    \E i \in createdIds, c \in Users :
        /\ proposals[i].executed
        /\ votes[i][c].voted
        /\ votes[i][c].weight = balanceOf(proposals[i].tokenAddress, c)
        /\ totalSupply[proposals[i].tokenAddress] = minted[proposals[i].tokenAddress]

\* C22: no step changes the id, tokenAddress, creator, startTime, endTime or
\* quorum of a created proposal or turns an executed flag from true to false;
\* a successful castVote(proposalId) by c changes, of all proposals and
\* ballots, only the tallies of that proposal and c's ballot on it; a
\* successful executeProposal(proposalId) changes only that proposal's
\* executed flag.
C22_Frame ==
    [][\/ UNCHANGED govVars
       \/ /\ \A i \in createdIds :
                /\ proposals'[i].id = proposals[i].id
                /\ proposals'[i].tokenAddress = proposals[i].tokenAddress
                /\ proposals'[i].creator = proposals[i].creator
                /\ proposals'[i].startTime = proposals[i].startTime
                /\ proposals'[i].endTime = proposals[i].endTime
                /\ proposals'[i].quorum = proposals[i].quorum
          /\ \A i \in ProposalIds : proposals[i].executed => proposals'[i].executed
          /\ \A c \in Users, i \in ProposalIds, s \in BOOLEAN :
                (castVoteError(c, i, s) = OK /\ castVote(c, i, s)) =>
                    /\ proposals' = [proposals EXCEPT
                                        ![i].votesFor = proposals'[i].votesFor,
                                        ![i].votesAgainst = proposals'[i].votesAgainst]
                    /\ votes' = [votes EXCEPT ![i][c] = votes'[i][c]]
                    /\ proposalCount' = proposalCount
          /\ \A c \in Users, i \in ProposalIds :
                (executeProposalError(i) = OK /\ executeProposal(c, i)) =>
                    /\ proposals' = [proposals EXCEPT ![i].executed = TRUE]
                    /\ votes' = votes
                    /\ proposalCount' = proposalCount]_vars

\* two proposals with votes: the first executed, the second still unexecuted
\* and carrying a vote against
C22_Witness ==
    /\ proposalCount = 2
    /\ proposals[1].executed
    /\ proposals[1].votesFor > 0
    /\ ~proposals[2].executed
    /\ proposals[2].votesAgainst > 0
    /\ votes[2][2].voted

\* C23 as stated: one vote per address is enforced, not one vote per token
\* unit.  An account without a ballot that holds tokens can vote on an open
\* proposal with its balance as weight, also when those tokens have already
\* been voted with by the account they came from.
C23_Original ==
    \A i \in createdIds, v \in Users, s \in BOOLEAN :
        (now <= proposals[i].endTime /\ ~votes[i][v].voted
            /\ balanceOf(proposals[i].tokenAddress, v) > 0) =>
                castVoteError(v, i, s) = OK

\* C24: once now > endTime no step changes the votesFor or votesAgainst of a
\* proposal, and once executeProposal on a proposal fails with
\* QuorumNotReached it fails with QuorumNotReached after every further step,
\* the proposal staying unexecuted.
C24_Final ==
    [][\/ UNCHANGED <<now, proposals>>
       \/ \A i \in createdIds :
            /\ now > proposals[i].endTime =>
                    /\ proposals'[i].votesFor = proposals[i].votesFor
                    /\ proposals'[i].votesAgainst = proposals[i].votesAgainst
            /\ executeProposalError(i) = QuorumNotReached =>
                    /\ executeProposalError(i)' = QuorumNotReached
                    /\ ~proposals'[i].executed]_vars

\* after endTime a proposal is short of its quorum although an account that
\* has not voted holds enough tokens to reach it
C24_Witness ==
    \E i \in createdIds, v \in Users :
        /\ now > proposals[i].endTime
        /\ executeProposalError(i) = QuorumNotReached
        /\ ~votes[i][v].voted
        /\ sumVotes(proposals[i]) + balanceOf(proposals[i].tokenAddress, v) >= proposals[i].quorum
        /\ castVoteError(v, i, TRUE) = VotingClosed

\* C25 as stated: a token creation with (totalSupply, decimals) whose
\* totalSupply * 10^decimals is above the uint256 range fails, by a direct
\* deployment and through TokenFactory.createToken alike: it deploys and
\* mints nothing and adds nothing to the factory's lists.
C25_Original ==
    [][\/ UNCHANGED vars
       \/ \A c \in Users, s \in Supplies, d \in DecimalsIn, f \in BOOLEAN :
            s * 10^d > UintMax =>
                /\ ~createToken(c, s, d, f)
                /\ ~deployCustomToken(s, d, c, f)]_vars

\* the stored weights of the ballots on proposal i that support (or oppose) it
ballotWeights(i, side) ==
    [v \in Users |-> IF votes[i][v].voted /\ votes[i][v].support = side
                     THEN votes[i][v].weight ELSE 0]

\* C27: for every proposal votesFor is the sum of the stored weights of its
\* ballots with support = true and votesAgainst the sum of those with support
\* = false, every stored ballot has a weight above 0, and only ids in
\* 1..proposalCount have ballots.
C27_Tallies ==
    \A i \in ProposalIds :
        /\ proposals[i].votesFor = SumOver(ballotWeights(i, TRUE), Users)
        /\ proposals[i].votesAgainst = SumOver(ballotWeights(i, FALSE), Users)
        /\ \A v \in Users :
                IF votes[i][v].voted THEN votes[i][v].weight > 0 /\ i \in createdIds
                ELSE votes[i][v] = DefaultVote

\* a proposal with a ballot for and a ballot against of different weights
C27_Witness ==
    \E i \in createdIds :
        /\ votes[i][1].voted
        /\ votes[i][2].voted
        /\ votes[i][1].support # votes[i][2].support
        /\ votes[i][1].weight > votes[i][2].weight
        /\ votes[i][2].weight > 1

\* C28: an executed proposal is past its endTime, castVote never fails with
\* AlreadyExecuted (a vote on an executed proposal fails with VotingClosed),
\* and no step changes the tallies or the ballots of an executed proposal.
C28_NoVoteAfterExecution ==
    /\ [](\A i \in ProposalIds :
            /\ proposals[i].executed => now > proposals[i].endTime
            /\ \A c \in Users, s \in BOOLEAN :
                    /\ castVoteError(c, i, s) # AlreadyExecuted
                    /\ proposals[i].executed => castVoteError(c, i, s) = VotingClosed)
    /\ [][\/ UNCHANGED govVars
          \/ \A i \in ProposalIds :
                proposals[i].executed =>
                    /\ proposals'[i].votesFor = proposals[i].votesFor
                    /\ proposals'[i].votesAgainst = proposals[i].votesAgainst
                    /\ votes'[i] = votes[i]]_vars

\* an executed proposal and a token holder without a ballot on it, whose vote
\* is refused because the window is closed
C28_Witness ==
    \E i \in createdIds, c \in Users :
        /\ proposals[i].executed
        /\ ~votes[i][c].voted
        /\ voteWeight(proposals[i], c) > 0
        /\ castVoteError(c, i, TRUE) = VotingClosed

\* C29: no step decreases the totalSupply of a token, and the quorum of every
\* proposal is at most the current totalSupply of its token.
C29_QuorumWithinSupply ==
    /\ [](\A i \in createdIds : proposals[i].quorum <= totalSupply[proposals[i].tokenAddress])
    /\ [][\/ UNCHANGED totalSupply
          \/ \A t \in TokenAddrs : totalSupply'[t] >= totalSupply[t]]_vars

\* a proposal whose quorum is the whole supply, after its creator has passed
\* all tokens on
C29_Witness ==
    \E i \in createdIds :
        /\ proposals[i].quorum > 0
        /\ proposals[i].quorum = totalSupply[proposals[i].tokenAddress]
        /\ balanceOf(proposals[i].tokenAddress, proposals[i].creator) = 0

recordedVotes(proposalId, voterAddress) ==
    {k \in DOMAIN votesTable :
        /\ votesTable[k].proposalId = proposalId
        /\ toLowerCase(votesTable[k].voterAddress) = toLowerCase(voterAddress)}

\* C26: the votes table holds at most one row per (proposalId, voter address
\* compared case-insensitively), whatever the order in which the handlers
\* are resumed; no step adds a row for a pair that has one, and the step in
\* which a request is answered 400 changes neither the votes table nor the
\* mirrored tallies.
C26_Original ==
    /\ [](\A i \in 1..MissingProposalId, a \in VoterAddresses :
            Cardinality(recordedVotes(i, a)) <= 1)
    /\ [][\/ UNCHANGED mirrorVars
          \/ /\ Len(votesTable') > Len(votesTable) =>
                   LET row == votesTable'[Len(votesTable')] IN
                   recordedVotes(row.proposalId, row.voterAddress) = {}
             /\ \A r \in Requests :
                   (handlers[r].status = 0 /\ handlers'[r].status = 400) =>
                       UNCHANGED <<votesTable, proposalsTable>>]_vars

====
